---- MODULE Spec2Model ----
(***************************************************************************)
(* Model of src/conf.rs of shared_memory-rs: the configuration builder     *)
(* (SharedMemConf), the metadata layout calculator, the creator            *)
(* (SharedMemConf::create) and the opener (SharedMemConf::open).           *)
(*                                                                         *)
(* Addresses and sizes are machine words.  TLC's integers are 32 bits      *)
(* wide, so the word (usize and u64 alike on the 64-bit targets the crate  *)
(* supports) is modelled with USIZE_MOD values; every sum the code         *)
(* computes on words goes through Overflows / Wrap.  An overflowing sum    *)
(* panics in a build with overflow checks ("debug") and wraps otherwise    *)
(* ("release"); the build is chosen once, in Init.                         *)
(***************************************************************************)
EXTENDS Integers, Sequences, FiniteSets, TLC

(***************************************************************************)
(* Bounds of the model.                                                    *)
(***************************************************************************)
MaxLocks == 2
MaxEvents == 1

(***************************************************************************)
(* Program constants.                                                      *)
(***************************************************************************)
\* size_of::<MetaDataHeader>(): four u64 fields, repr(C)
SIZE_OF_META_HEADER == 32
\* size_of::<LockHeader>(): u8, u64, u64 with repr(C) padding
SIZE_OF_LOCK_HEADER == 24
\* size_of::<EventHeader>(): one u8
SIZE_OF_EVENT_HEADER == 1
\* crate::ADDR_ALIGN
ADDR_ALIGN == 8

\* Number of values of a machine word.
USIZE_MOD == 2^30
USIZE_MAX == USIZE_MOD - 1

Overflows(x) == x >= USIZE_MOD
Wrap(x) == x % USIZE_MOD

NONE == "none"
NULL == 0

Builds == {"debug", "release"}

(***************************************************************************)
(* The kinds catalogue and the primitive's sizes (locks.rs, events.rs and  *)
(* os_impl are not part of the modelled file).                             *)
(***************************************************************************)
\* LockType::from_u8 is Some exactly on these codes
LockTypes == {0, 1}
\* EventType::from_u8 is Some exactly on these codes
EventTypes == {0, 1}
\* a code that is no kind, as a foreign header may carry
BAD_UID == 9

\* lock.interface.size_of()
LockSizeOf(uid) == IF uid = 0 THEN 40 ELSE 12
\* event.interface.size_of()
EventSizeOf(uid) == IF uid = 0 THEN 1 ELSE 0

(***************************************************************************)
(* align_value: the next multiple of align (a power of two) at or after    *)
(* val; val & (align-1) is val % align and & !(align-1) clears the low     *)
(* bits.                                                                   *)
(***************************************************************************)
\* align_value that leaves val as it is
AlignValueNoRound(val, align) == val

align_value(val, align) ==
    LET tmp == align - 1
    IN  IF val % align # 0
        THEN ((val + tmp) \div align) * align
        ELSE val

(***************************************************************************)
(* SharedMemConf                                                           *)
(***************************************************************************)
\* impl Default for SharedMemConf
DefaultConf ==
    [ owner                   |-> FALSE,
      overwrite_existing_link |-> FALSE,
      link_path               |-> NONE,
      wanted_os_path          |-> NONE,
      size                    |-> 0,
      lock_range_tree         |-> {},
      lock_data               |-> << >>,
      event_data              |-> << >>,
      meta_size               |-> SIZE_OF_META_HEADER ]

\* What two processes compare of a configuration: the lock sequence (kind,
\* offset, length), the event sequence (kind), get_size() and
\* get_metadata_size().
Layout(self) ==
    [ locks     |-> [i \in 1 .. Len(self.lock_data) |->
                        <<self.lock_data[i].uid, self.lock_data[i].offset,
                          self.lock_data[i].length>>],
      events    |-> [i \in 1 .. Len(self.event_data) |-> self.event_data[i].uid],
      user_size |-> self.size,
      meta_size |-> self.meta_size ]

\* SharedMemConf::valid_lock_range; the sum is a wrapped usize sum (where it
\* overflows and the build checks overflow, add_lock_impl does not get here)
valid_lock_range(map_size, offset, length) ==
    IF length = 0 THEN offset = 0
    ELSE ~ (Wrap(offset + (length - 1)) >= map_size)

\* IntervalTree::range(min, max): the stored ranges that intersect
\* [min, max], both ends inclusive.
TreeRange(tree, min, max) ==
    { e \in tree : e.min <= max /\ min <= e.max }

\* .next() of the range iterator: the tree iterates in key order, and the
\* key is the range, ordered by (min, max).
TreeFirst(es) ==
    CHOOSE e \in es : \A f \in es : e.min < f.min \/ (e.min = f.min /\ e.max <= f.max)

\* an insert that stores the number of ranges in the tree, not val
TreeInsertRangeCount(tree, min, max, val) ==
    { e \in tree : ~ (e.min = min /\ e.max = max) }
        \cup { [min |-> min, max |-> max, val |-> Cardinality(tree)] }

\* IntervalTree::insert
TreeInsert(tree, min, max, val) ==
    { e \in tree : ~ (e.min = min /\ e.max = max) }
        \cup { [min |-> min, max |-> max, val |-> val] }

NewLock(uid, offset, length) ==
    [ uid |-> uid, offset |-> offset, length |-> length,
      lock_ptr |-> NULL, data_ptr |-> NULL ]

NewEvent(uid) == [ uid |-> uid, ptr |-> NULL ]

(***************************************************************************)
(* SharedMemConf::add_lock_impl.  The result is a record: res is "Ok", an  *)
(* error kind or "Panic", conf the configuration afterwards, err the       *)
(* error's arguments.                                                      *)
(*                                                                         *)
(* offset + (length - 1) is computed twice: on usize in valid_lock_range   *)
(* (a panic with overflow checks, a wrapped sum without) and on u64 for    *)
(* end_offset.  When the sum wraps, end_offset < start_offset and          *)
(* Range::new(start_offset, end_offset), which asserts min <= max, panics.  *)
(***************************************************************************)
\* add_lock_impl without the query of the interval tree
AddLockNoOverlapCheck(self, lock_type, offset, length, bld) ==
    IF length # 0 /\ Overflows(offset + (length - 1))
    THEN [res |-> "Panic", conf |-> self, err |-> << >>]
    ELSE IF ~ valid_lock_range(self.size, offset, length)
    THEN [res |-> "RangeDoesNotFit", conf |-> self, err |-> <<length, self.size>>]
    ELSE [res |-> "Ok", err |-> << >>,
          conf |-> [self EXCEPT
             !.lock_range_tree =
                 IF length # 0
                 THEN TreeInsert(@, offset, offset + (length - 1), Len(self.lock_data))
                 ELSE @,
             !.meta_size = @ + SIZE_OF_LOCK_HEADER + LockSizeOf(lock_type),
             !.lock_data = Append(@, NewLock(lock_type, offset, length))]]

add_lock_impl(self, lock_type, offset, length, bld) ==
    IF length # 0 /\ Overflows(offset + (length - 1)) /\ bld = "debug"
    THEN [res |-> "Panic", conf |-> self, err |-> << >>]
    ELSE IF ~ valid_lock_range(self.size, offset, length)
    THEN [res |-> "RangeDoesNotFit", conf |-> self, err |-> <<length, self.size>>]
    ELSE IF length # 0 /\ Wrap(offset + (length - 1)) < offset
    THEN [res |-> "Panic", conf |-> self, err |-> << >>]
    ELSE IF length # 0
            /\ TreeRange(self.lock_range_tree, offset, offset + (length - 1)) # {}
    THEN [res |-> "RangeOverlapsExisting", conf |-> self,
          err |-> <<offset, length,
                    TreeFirst(TreeRange(self.lock_range_tree, offset,
                                        offset + (length - 1))).val>>]
    ELSE [res |-> "Ok", err |-> << >>,
          conf |-> [self EXCEPT
             !.lock_range_tree =
                 IF length # 0
                 THEN TreeInsert(@, offset, offset + (length - 1), Len(self.lock_data))
                 ELSE @,
             !.meta_size = @ + SIZE_OF_LOCK_HEADER + LockSizeOf(lock_type),
             !.lock_data = Append(@, NewLock(lock_type, offset, length))]]

\* SharedMemConf::add_event_impl
add_event_impl(self, event_type) ==
    [self EXCEPT
        !.meta_size = @ + SIZE_OF_EVENT_HEADER + EventSizeOf(event_type),
        !.event_data = Append(@, NewEvent(event_type))]

(***************************************************************************)
(* SharedMemConf::calculate_metadata_size, as a walk over the lock and     *)
(* event sequences.                                                        *)
(***************************************************************************)
RECURSIVE CalcLocks(_, _, _)
CalcLocks(lock_data, i, meta_size) ==
    IF i > Len(lock_data) THEN meta_size
    ELSE CalcLocks(lock_data, i + 1,
            align_value(meta_size + SIZE_OF_LOCK_HEADER, ADDR_ALIGN)
                + LockSizeOf(lock_data[i].uid))

\* the event loop without the alignment after each header
RECURSIVE CalcEventsUnaligned(_, _, _)
CalcEventsUnaligned(event_data, i, meta_size) ==
    IF i > Len(event_data) THEN meta_size
    ELSE CalcEventsUnaligned(event_data, i + 1,
            meta_size + SIZE_OF_EVENT_HEADER + EventSizeOf(event_data[i].uid))

RECURSIVE CalcEvents(_, _, _)
CalcEvents(event_data, i, meta_size) ==
    IF i > Len(event_data) THEN meta_size
    ELSE CalcEvents(event_data, i + 1,
            align_value(meta_size + SIZE_OF_EVENT_HEADER, ADDR_ALIGN)
                + EventSizeOf(event_data[i].uid))

\* the builder's running tally in place of the walk
MetaSizeFromTally(self) == self.meta_size

calculate_metadata_size(self) ==
    align_value(
        CalcEvents(self.event_data, 1,
            CalcLocks(self.lock_data, 1, SIZE_OF_META_HEADER)),
        ADDR_ALIGN)

(***************************************************************************)
(* The world outside the process: the OS backend's named mappings and the  *)
(* link file.  A mapping is its size, its MetaDataHeader and the           *)
(* descriptor headers stored in it, keyed by their offset from the start   *)
(* of the mapping (every process maps it at an address of its own).        *)
(***************************************************************************)
EXPLICIT_NAME == "/explicit"
RANDOM_NAME == "/shmem_rs_2A"
Names == {EXPLICIT_NAME, RANDOM_NAME}
LINK_PATH == "link"

\* addresses at which the OS backend places a mapping (page aligned)
MapPtrs == {4096, 8192}

ZeroHeader == [meta_size |-> 0, user_size |-> 0, num_locks |-> 0, num_events |-> 0]
ZeroCell == [uid |-> 0, offset |-> 0, length |-> 0]

\* no mapping under a name.  live tells whether the OS has the object; by and
\* complete are history: the layout of the create that made the
\* mapping and whether that create returned Ok.
NoMapping ==
    [ live |-> FALSE, map_size |-> 0, hdr |-> ZeroHeader, cells |-> << >>,
      by |-> Layout(DefaultConf), complete |-> FALSE ]

\* os_impl::create_mapping hands out zero-filled memory
FreshMapping(size) == [NoMapping EXCEPT !.live = TRUE, !.map_size = size]

\* *(cur_ptr as *mut LockHeader) / *(cur_ptr as *mut EventHeader)
ReadCell(m, at) == IF at \in DOMAIN m.cells THEN m.cells[at] ELSE ZeroCell

WriteCell(cells, at, cell) == [a \in DOMAIN cells \cup {at} |->
                                 IF a = at THEN cell ELSE cells[a]]

NoResult ==
    [ op |-> "none", res |-> "none", err |-> << >>, conf |-> DefaultConf,
      map_ptr |-> NULL, user_ptr |-> NULL, cursor |-> NULL, name |-> NONE,
      seen |-> NoMapping, inits |-> << >>, steps |-> << >>, calls |-> << >>,
      given |-> 0 ]

(***************************************************************************)
(* Faults of the environment, an input of create and open: one call of     *)
(* the file system, of the OS backend or of a primitive's init (the first  *)
(* or the second init call of the operation) returns an error.             *)
(***************************************************************************)
Faults == {"none", "link_open", "mapping", "link_io", "init1", "init2"}
\* the faults create is run under
CreateFaults == Faults \ {"init2"}

\* whether the init call that ends the log inits returns an error
InitFails(fault, inits) ==
    \/ fault = "init1" /\ Len(inits) = 1
    \/ fault = "init2" /\ Len(inits) = 2

(***************************************************************************)
(* SharedMemConf::create, lines 264-297: the serialisation of the          *)
(* descriptors.  w is the walk's state: the cursor, the descriptors with   *)
(* their pointers, the cells written so far, the init calls made, and res. *)
(* fault tells which init call, if any, returns an error.                  *)
(***************************************************************************)
CreateLockStep(w, i, map_ptr, user_ptr, fault) ==
    LET lock   == w.lock_data[i]
        cur1   == align_value(w.cur + SIZE_OF_LOCK_HEADER, ADDR_ALIGN)
        inits1 == Append(w.inits, [kind |-> "lock", index |-> i, owner |-> TRUE,
                                   ptr |-> cur1])
    IN  [w EXCEPT
            !.cells = WriteCell(@, w.cur - map_ptr,
                        [uid |-> lock.uid, offset |-> lock.offset, length |-> lock.length]),
            !.lock_data[i].lock_ptr = cur1,
            !.lock_data[i].data_ptr = user_ptr + lock.offset,
            !.cur = cur1 + LockSizeOf(lock.uid),
            !.inits = inits1,
            !.steps = @ \o << <<"header", "lock", i, w.cur, SIZE_OF_LOCK_HEADER>>,
                              <<"body", "lock", i, cur1, LockSizeOf(lock.uid)>>,
                              <<"init", "lock", i, cur1, LockSizeOf(lock.uid)>> >>,
            !.res = IF InitFails(fault, inits1) THEN "InitFailed" ELSE "Ok"]

RECURSIVE CreateLocks(_, _, _, _, _)
CreateLocks(w, i, map_ptr, user_ptr, fault) ==
    IF w.res # "Ok" \/ i > Len(w.lock_data) THEN w
    ELSE CreateLocks(CreateLockStep(w, i, map_ptr, user_ptr, fault),
                     i + 1, map_ptr, user_ptr, fault)

CreateEventStep(w, i, map_ptr, fault) ==
    LET event  == w.event_data[i]
        cur1   == align_value(w.cur + SIZE_OF_EVENT_HEADER, ADDR_ALIGN)
        inits1 == Append(w.inits, [kind |-> "event", index |-> i, owner |-> TRUE,
                                   ptr |-> cur1])
    IN  [w EXCEPT
            !.cells = WriteCell(@, w.cur - map_ptr,
                        [ReadCell([cells |-> w.cells], w.cur - map_ptr)
                            EXCEPT !.uid = event.uid]),
            !.event_data[i].ptr = cur1,
            !.cur = cur1 + EventSizeOf(event.uid),
            !.inits = inits1,
            !.steps = @ \o << <<"header", "event", i, w.cur, SIZE_OF_EVENT_HEADER>>,
                              <<"body", "event", i, cur1, EventSizeOf(event.uid)>>,
                              <<"init", "event", i, cur1, EventSizeOf(event.uid)>> >>,
            !.res = IF InitFails(fault, inits1) THEN "InitFailed" ELSE "Ok"]

RECURSIVE CreateEvents(_, _, _, _)
CreateEvents(w, i, map_ptr, fault) ==
    IF w.res # "Ok" \/ i > Len(w.event_data) THEN w
    ELSE CreateEvents(CreateEventStep(w, i, map_ptr, fault), i + 1, map_ptr, fault)

\* lines 252-309: from the header to the returned SharedMem
CreateSerialize(self, map_ptr, meta_size, fault) ==
    LET user_ptr == map_ptr + meta_size
        hdr == [ meta_size  |-> meta_size,
                 user_size  |-> self.size,
                 num_locks  |-> Len(self.lock_data),
                 num_events |-> Len(self.event_data) ]
        w0 == [ cur |-> map_ptr + SIZE_OF_META_HEADER, cells |-> << >>,
                lock_data |-> self.lock_data, event_data |-> self.event_data,
                inits |-> << >>, steps |-> << >>, res |-> "Ok" ]
        w1 == CreateLocks(w0, 1, map_ptr, user_ptr, fault)
        w2 == CreateEvents(w1, 1, map_ptr, fault)
    IN  [ res      |-> w2.res,
          hdr      |-> hdr,
          cells    |-> w2.cells,
          inits    |-> w2.inits,
          steps    |-> w2.steps,
          cursor   |-> IF w2.res = "Ok" THEN align_value(w2.cur, ADDR_ALIGN) ELSE w2.cur,
          conf     |-> [self EXCEPT !.lock_data = w2.lock_data,
                                    !.event_data = w2.event_data,
                                    !.meta_size = meta_size] ]

Failed(op, res, err, name, calls) ==
    [NoResult EXCEPT !.op = op, !.res = res, !.err = err, !.name = name,
                     !.calls = calls]

\* the name written with a line end after it
LinkWriteWithTrailer(contents, unique_id) == contents \o unique_id \o "\n"

\* line 247: openned_link.write(unique_id.as_bytes()) on a file that holds
\* contents (the whole buffer is taken to be written when write returns Ok)
LinkWrite(contents, unique_id) == contents \o unique_id

(***************************************************************************)
(* SharedMemConf::create.  The result is a record: out is what the caller  *)
(* gets (res "Ok" and the attached region's conf, user_ptr, ..., or an     *)
(* error), fs and os are the link file and the OS mappings afterwards.     *)
(* rnd is the random name, map_ptr where the OS places the mapping.        *)
(***************************************************************************)
\* the link file opened with create and truncate whatever overwrite_link says
CreateLinkAlwaysOverwrites(self, fsv, fault) ==
    IF self.link_path = NONE THEN [res |-> "Ok", fs |-> fsv, owner |-> self.owner]
    ELSE IF fault = "link_open"
         THEN [res |-> "LinkCreateFailed", fs |-> fsv, owner |-> self.owner]
    ELSE [res |-> "Ok", fs |-> "", owner |-> TRUE]

CreateLink(self, fsv, fault) ==
    \* lines 208-232
    \* create_new on a path that exists is ErrorKind::AlreadyExists; any other
    \* failure of the open is the fault "link_open"
    IF self.link_path = NONE THEN [res |-> "Ok", fs |-> fsv, owner |-> self.owner]
    ELSE IF ~ self.overwrite_existing_link /\ fsv # NONE
         THEN [res |-> "LinkExists", fs |-> fsv, owner |-> self.owner]
    ELSE IF fault = "link_open"
         THEN [res |-> "LinkCreateFailed", fs |-> fsv, owner |-> self.owner]
    ELSE [res |-> "Ok", fs |-> "", owner |-> TRUE]

\* create without the check of lines 204-206
SizeCheckSkipped(self) == FALSE

\* line 204
MapSizeIsZero(self) == self.size = 0

create(self, fsv, osv, bld, rnd, map_ptr, fault) ==
    IF MapSizeIsZero(self)
    THEN [out |-> Failed("create", "MapSizeZero", << >>, NONE, << >>),
          fs |-> fsv, os |-> osv]
    ELSE
    LET link == CreateLink(self, fsv, fault)
        self1 == [self EXCEPT !.owner = link.owner]
        unique_id == IF self.wanted_os_path # NONE THEN self.wanted_os_path ELSE rnd
        meta_size == calculate_metadata_size(self1)
        total == meta_size + self1.size
        calls == << <<"create_mapping", unique_id, Wrap(total)>> >>
        ser == CreateSerialize(self1, map_ptr, meta_size, fault)
        fs2 == IF self1.link_path # NONE THEN LinkWrite(link.fs, unique_id) ELSE link.fs
        os2 == [osv EXCEPT ![unique_id] =
                  [ live |-> TRUE, map_size |-> Wrap(total), hdr |-> ser.hdr,
                    cells |-> ser.cells, by |-> Layout(ser.conf),
                    complete |-> ser.res = "Ok" ]]
    IN  IF link.res # "Ok"
        THEN [out |-> Failed("create", link.res, << >>, NONE, << >>),
              fs |-> link.fs, os |-> osv]
        ELSE IF Overflows(total) /\ bld = "debug"
        THEN [out |-> Failed("create", "Panic", << >>, unique_id, << >>),
              fs |-> link.fs, os |-> osv]
        ELSE IF fault = "mapping" \/ osv[unique_id].live
        THEN [out |-> Failed("create", "MapCreateFailed", << >>, unique_id, calls),
              fs |-> link.fs, os |-> osv]
        ELSE IF self1.link_path # NONE /\ fault = "link_io"
        THEN [out |-> Failed("create", "LinkWriteFailed", << >>, unique_id, calls),
              fs |-> link.fs,
              os |-> [osv EXCEPT ![unique_id] = FreshMapping(Wrap(total))]]
        ELSE IF ser.res # "Ok"
        THEN [out |-> [Failed("create", ser.res, << >>, unique_id, calls)
                         EXCEPT !.inits = ser.inits, !.steps = ser.steps,
                                !.map_ptr = map_ptr],
              fs |-> fs2, os |-> os2]
        ELSE [out |-> [ op |-> "create", res |-> "Ok", err |-> << >>,
                        conf |-> ser.conf, map_ptr |-> map_ptr,
                        user_ptr |-> ser.cursor, cursor |-> ser.cursor,
                        name |-> unique_id, seen |-> os2[unique_id],
                        inits |-> ser.inits, steps |-> ser.steps, calls |-> calls,
                        given |-> 0 ],
              fs |-> fs2, os |-> os2]

(***************************************************************************)
(* SharedMemConf::open, lines 371-452: the walk over the descriptors.  w   *)
(* is the walk's state: the cursor, the configuration being rebuilt, the   *)
(* init calls made, res and the error's arguments.  m is the mapping,      *)
(* wild what a read outside the mapping produces: a crash or some header.  *)
(***************************************************************************)
ReadHeader(m, at, size, wild) ==
    IF at + size > m.map_size THEN wild
    ELSE [crash |-> FALSE, cell |-> ReadCell(m, at)]

Stop(w, res) == [w EXCEPT !.res = res]

\* a walk that leaves the cursor on the header it has read
HeaderNotSkipped(cur_ptr, size) == cur_ptr

\* lines 374-375, 417-418: the cursor past a header, aligned
AfterHeader(cur_ptr, size) == align_value(cur_ptr + size, ADDR_ALIGN)

\* open placing the body of every event before its init
BodyAlwaysPlaced(size) == FALSE

\* line 438: the event has no data in shared memory
HasNoBody(size) == size = 0

\* open without the comparisons of the cursor with user_ptr
OverrunIgnored(cur_ptr, user_ptr) == FALSE

\* lines 378, 406, 420, 446
Overrun(cur_ptr, user_ptr) == cur_ptr > user_ptr

\* every uid taken for a lock kind
AnyUidIsALock(uid) == TRUE

\* lines 383-388: LockType::from_u8(lock_header.uid) is Some
LockTypeFromU8(uid) == uid \in LockTypes

\* lines 424-429: EventType::from_u8(event_header.uid) is Some
EventTypeFromU8(uid) == uid \in EventTypes

OpenLockStep(w, m, map_ptr, user_ptr, bld, fault, wild) ==
    LET rd     == ReadHeader(m, w.cur - map_ptr, SIZE_OF_LOCK_HEADER, wild)
        hdr    == rd.cell
        cur1   == AfterHeader(w.cur, SIZE_OF_LOCK_HEADER)
        added  == add_lock_impl(w.conf, hdr.uid, hdr.offset, hdr.length, bld)
        n      == Len(added.conf.lock_data)
        cur2   == cur1 + LockSizeOf(hdr.uid)
        conf2  == [added.conf EXCEPT
                      !.lock_data[n].lock_ptr = cur1,
                      !.lock_data[n].data_ptr = Wrap(user_ptr + hdr.offset)]
        inits1 == Append(w.inits, [kind |-> "lock", index |-> n, owner |-> FALSE,
                                   ptr |-> cur1])
        i      == Len(w.conf.lock_data) + 1
        read   == Append(w.steps, <<"header", "lock", i, w.cur, SIZE_OF_LOCK_HEADER>>)
        placed == Append(read, <<"body", "lock", i, cur1, LockSizeOf(hdr.uid)>>)
    IN  IF Overrun(cur1, user_ptr) THEN Stop([w EXCEPT !.cur = cur1], "InvalidHeader")
        ELSE IF rd.crash THEN Stop([w EXCEPT !.cur = cur1], "Crash")
        ELSE IF ~ LockTypeFromU8(hdr.uid)
        THEN Stop([w EXCEPT !.cur = cur1, !.steps = read], "InvalidHeader")
        ELSE IF added.res # "Ok"
        THEN [w EXCEPT !.cur = cur1, !.steps = read, !.res = added.res,
                       !.err = added.err]
        ELSE IF Overrun(cur2, user_ptr)
        THEN Stop([w EXCEPT !.cur = cur2, !.conf = conf2, !.steps = placed],
                  "InvalidHeader")
        ELSE [w EXCEPT !.cur = cur2, !.conf = conf2, !.inits = inits1,
                       !.steps = Append(placed, <<"init", "lock", i, cur1,
                                                  LockSizeOf(hdr.uid)>>),
                       !.res = IF InitFails(fault, inits1) THEN "InitFailed" ELSE "Ok"]

RECURSIVE OpenLocks(_, _, _, _, _, _, _, _)
OpenLocks(w, i, m, map_ptr, user_ptr, bld, fault, wild) ==
    IF w.res # "Ok" \/ i >= m.hdr.num_locks THEN w
    ELSE OpenLocks(OpenLockStep(w, m, map_ptr, user_ptr, bld, fault, wild),
                   i + 1, m, map_ptr, user_ptr, bld, fault, wild)

OpenEventStep(w, m, map_ptr, user_ptr, fault, wild) ==
    LET rd     == ReadHeader(m, w.cur - map_ptr, SIZE_OF_EVENT_HEADER, wild)
        hdr    == rd.cell
        cur1   == AfterHeader(w.cur, SIZE_OF_EVENT_HEADER)
        conf1  == add_event_impl(w.conf, hdr.uid)
        n      == Len(conf1.event_data)
        cur2   == cur1 + EventSizeOf(hdr.uid)
        conf2  == [conf1 EXCEPT !.event_data[n].ptr = cur1]
        init0  == Append(w.inits, [kind |-> "event", index |-> n, owner |-> FALSE,
                                   ptr |-> NULL])
        init1  == Append(w.inits, [kind |-> "event", index |-> n, owner |-> FALSE,
                                   ptr |-> cur1])
        read   == Append(w.steps, <<"header", "event", n, w.cur, SIZE_OF_EVENT_HEADER>>)
        placed == Append(read, <<"body", "event", n, cur1, EventSizeOf(hdr.uid)>>)
    IN  IF Overrun(cur1, user_ptr) THEN Stop([w EXCEPT !.cur = cur1], "InvalidHeader")
        ELSE IF rd.crash THEN Stop([w EXCEPT !.cur = cur1], "Crash")
        ELSE IF ~ EventTypeFromU8(hdr.uid)
        THEN Stop([w EXCEPT !.cur = cur1, !.steps = read], "InvalidHeader")
        ELSE IF HasNoBody(EventSizeOf(hdr.uid))
        THEN [w EXCEPT !.cur = cur1, !.conf = conf1, !.inits = init0,
                       !.steps = Append(read, <<"init", "event", n, NULL, 0>>),
                       !.res = IF InitFails(fault, init0) THEN "InitFailed" ELSE "Ok"]
        ELSE IF Overrun(cur2, user_ptr)
        THEN Stop([w EXCEPT !.cur = cur2, !.conf = conf2, !.steps = placed],
                  "InvalidHeader")
        ELSE [w EXCEPT !.cur = cur2, !.conf = conf2, !.inits = init1,
                       !.steps = Append(placed, <<"init", "event", n, cur1,
                                                  EventSizeOf(hdr.uid)>>),
                       !.res = IF InitFails(fault, init1) THEN "InitFailed" ELSE "Ok"]

RECURSIVE OpenEvents(_, _, _, _, _, _, _)
OpenEvents(w, i, m, map_ptr, user_ptr, fault, wild) ==
    IF w.res # "Ok" \/ i >= m.hdr.num_events THEN w
    ELSE OpenEvents(OpenEventStep(w, m, map_ptr, user_ptr, fault, wild),
                    i + 1, m, map_ptr, user_ptr, fault, wild)

\* a resolution that reads the link file whenever a link path is set
ResolveNameLinkFirst(self, fsv, fault) ==
    IF self.link_path # NONE /\ fsv # NONE
    THEN [res |-> "Ok", name |-> fsv]
    ELSE IF self.wanted_os_path # NONE
    THEN [res |-> "Ok", name |-> self.wanted_os_path]
    ELSE [res |-> "LinkDoesNotExist", name |-> NONE]

\* lines 318-343: the OS name open passes to open_mapping, or the error
ResolveName(self, fsv, fault) ==
    IF self.wanted_os_path # NONE
    THEN [res |-> "Ok", name |-> self.wanted_os_path]
    ELSE IF self.link_path = NONE \/ fsv = NONE
    THEN [res |-> "LinkDoesNotExist", name |-> NONE]
    ELSE IF fault = "link_open"
    THEN [res |-> "LinkOpenFailed", name |-> NONE]
    ELSE IF fault = "link_io"
    THEN [res |-> "LinkReadFailed", name |-> NONE]
    ELSE [res |-> "Ok", name |-> fsv]

\* open without the reset of lines 345-348
ResetKeepsLists(self) == self

\* lines 345-348

ResetConf(self) ==
    [self EXCEPT !.lock_range_tree = {}, !.lock_data = << >>, !.event_data = << >>]

\* open without the comparison of line 460
FinalCheckSkipped(cur_ptr, user_ptr, meta_size, header_meta_size) == FALSE

\* line 460: the condition under which open returns InvalidHeader at the end
FinalCheckFails(cur_ptr, user_ptr, meta_size, header_meta_size) ==
    cur_ptr # user_ptr \/ meta_size # header_meta_size

\* lines 345-471: the parse of mapping m, placed at map_ptr
OpenParse(self, m, name, map_ptr, bld, fault, wild, calls) ==
    LET self1    == [ResetConf(self) EXCEPT !.size = m.hdr.user_size]
        sum      == m.hdr.meta_size + m.hdr.user_size
        uptr     == map_ptr + m.hdr.meta_size
        user_ptr == Wrap(uptr)
        w0 == [ cur |-> map_ptr + SIZE_OF_META_HEADER, conf |-> self1,
                inits |-> << >>, steps |-> << >>, res |-> "Ok", err |-> << >> ]
        w1 == OpenLocks(w0, 0, m, map_ptr, user_ptr, bld, fault, wild)
        w2 == OpenEvents(w1, 0, m, map_ptr, user_ptr, fault, wild)
        cur_ptr == align_value(w2.cur, ADDR_ALIGN)
        conf3 == [w2.conf EXCEPT !.meta_size = cur_ptr - map_ptr]
        fail(res) == [Failed("open", res, << >>, name, calls)
                        EXCEPT !.seen = m, !.map_ptr = map_ptr]
    IN  IF SIZE_OF_META_HEADER > m.map_size THEN fail("InvalidHeader")
        ELSE IF Overflows(sum) /\ bld = "debug" THEN fail("Panic")
        ELSE IF m.map_size < Wrap(sum) THEN fail("InvalidHeader")
        ELSE IF Overflows(uptr) /\ bld = "debug" THEN fail("Panic")
        ELSE IF w2.res # "Ok"
        THEN [fail(w2.res) EXCEPT !.err = w2.err, !.inits = w2.inits,
                                  !.steps = w2.steps,
                                  !.cursor = w2.cur, !.user_ptr = user_ptr]
        ELSE IF FinalCheckFails(cur_ptr, user_ptr, conf3.meta_size, m.hdr.meta_size)
        THEN [fail("InvalidHeader") EXCEPT !.inits = w2.inits, !.steps = w2.steps,
                                           !.cursor = cur_ptr,
                                           !.user_ptr = user_ptr]
        ELSE [ op |-> "open", res |-> "Ok", err |-> << >>, conf |-> conf3,
               map_ptr |-> map_ptr, user_ptr |-> user_ptr, cursor |-> cur_ptr,
               name |-> name, seen |-> m, inits |-> w2.inits, steps |-> w2.steps,
               calls |-> calls,
               given |-> 0 ]

\* SharedMemConf::open
open(self, fsv, osv, bld, map_ptr, fault, wild) ==
    LET rn == ResolveName(self, fsv, fault)
        calls == << <<"open_mapping", rn.name>> >>
    IN  IF rn.res # "Ok"
        THEN Failed("open", rn.res, << >>, NONE, << >>)
        ELSE IF fault = "mapping" \/ rn.name \notin Names
        THEN Failed("open", "MapOpenFailed", << >>, rn.name, calls)
        ELSE IF ~ osv[rn.name].live
        THEN Failed("open", "MapOpenFailed", << >>, rn.name, calls)
        ELSE OpenParse(self, osv[rn.name], rn.name, map_ptr, bld, fault, wild, calls)

(***************************************************************************)
(* State: the builder the caller holds (conf), the OS mappings by name     *)
(* (os), the contents of the link file or NONE (fs), and what the most     *)
(* recent call returned (last).  create, open and a failed add_lock        *)
(* consume the builder; the caller goes on with a new one.  creator is a   *)
(* create that another process is in the middle of: where it is (pc), its  *)
(* configuration (self), where the OS placed its mapping (map_ptr), the    *)
(* descriptor it is at (i) and its serialisation so far (w).               *)
(* opener is an open that is followed one loop iteration at a time: where  *)
(* it is (pc), where the OS placed the mapping (map_ptr), user_ptr, the    *)
(* build and the failing init it runs under, the iterations made in the    *)
(* current loop (i) and in all (iters), and its walk so far (w).           *)
(***************************************************************************)
VARIABLES conf, os, fs, last, creator, opener

vars == <<conf, os, fs, last, creator, opener>>

EmptyWalk ==
    [ cur |-> NULL, cells |-> << >>, lock_data |-> << >>, event_data |-> << >>,
      inits |-> << >>, steps |-> << >>, res |-> "Ok" ]

\* no open is under way
NoOpener ==
    [ pc |-> "none", map_ptr |-> NULL, user_ptr |-> NULL, bld |-> "release",
      fault |-> "none", i |-> 0, iters |-> 0,
      w |-> [ cur |-> NULL, conf |-> DefaultConf, inits |-> << >>, steps |-> << >>,
              res |-> "Ok", err |-> << >> ] ]

\* no other process is creating
NoCreator ==
    [ pc |-> "none", self |-> DefaultConf, map_ptr |-> NULL, i |-> 0, w |-> EmptyWalk ]

(***************************************************************************)
(* Inputs of the builder's calls.  Until some mapping exists the caller    *)
(* draws them from the full sets; afterwards (the builders handed to open  *)
(* and to further creates) from the Later sets, and such a builder holds   *)
(* at most one lock.                                                       *)
(***************************************************************************)
Sizes == {0, 8, 16}
\* <<lock_type, offset, length>>
LockArgs == { <<0, 0, 0>>, <<1, 0, 8>>, <<0, 8, 8>>, <<1, 4, 8>>, <<0, 8, 0>>,
              <<1, USIZE_MAX - 3, 8>> }
LaterSizes == {}
LaterLockArgs == { <<0, 0, 0>> }
LaterEventTypes == {}

\* a link file left by an earlier run, naming a mapping that is gone
STALE_NAME == "/stale"

\* what a read outside the mapping may produce
Wilds == { [crash |-> TRUE, cell |-> ZeroCell],
           [crash |-> FALSE, cell |-> ZeroCell],
           [crash |-> FALSE, cell |-> [uid |-> BAD_UID, offset |-> 0, length |-> 0]] }

NothingMapped == \A n \in Names : ~ os[n].live

(***************************************************************************)
(* The inputs that cannot matter are not enumerated: the build decides     *)
(* only what an overflowing sum does, and no sum of Small words overflows; *)
(* a read outside the mapping needs a header whose meta_size exceeds the   *)
(* mapping.                                                                *)
(***************************************************************************)
Small(x) == x < USIZE_MOD \div 4

SmallMapping(m) ==
    /\ Small(m.hdr.meta_size) /\ Small(m.hdr.user_size)
    /\ \A at \in DOMAIN m.cells : Small(m.cells[at].offset) /\ Small(m.cells[at].length)

BuildsFor(small) == IF small THEN {"release"} ELSE Builds

WildsFor(m) ==
    IF m.hdr.meta_size <= m.map_size /\ SmallMapping(m)
    THEN { [crash |-> TRUE, cell |-> ZeroCell] }
    ELSE Wilds

Returned(op) == [NoResult EXCEPT !.op = op, !.res = "Ok"]

\* how many descriptors a builder holds
Given(self) == Len(self.lock_data) + Len(self.event_data)

Init ==
    /\ conf = DefaultConf
    /\ os = [n \in Names |-> NoMapping]
    /\ fs \in {NONE, STALE_NAME}
    /\ last = NoResult
    /\ creator = NoCreator
    /\ opener = NoOpener

\* SharedMemConf::set_size
SetSize ==
    \E wanted_size \in IF NothingMapped THEN Sizes ELSE LaterSizes :
        /\ conf' = [conf EXCEPT !.size = wanted_size]
        /\ last' = Returned("set_size")
        /\ UNCHANGED <<os, fs, creator, opener>>

\* SharedMemConf::set_link_path
SetLinkPath ==
    /\ conf' = [conf EXCEPT !.link_path = LINK_PATH]
    /\ last' = Returned("set_link_path")
    /\ UNCHANGED <<os, fs, creator, opener>>

\* SharedMemConf::set_os_path
SetOsPath ==
    /\ conf' = [conf EXCEPT !.wanted_os_path = EXPLICIT_NAME]
    /\ last' = Returned("set_os_path")
    /\ UNCHANGED <<os, fs, creator, opener>>

\* SharedMemConf::overwrite_link
OverwriteLink ==
    /\ NothingMapped
    /\ conf' = [conf EXCEPT !.overwrite_existing_link = TRUE]
    /\ last' = Returned("overwrite_link")
    /\ UNCHANGED <<os, fs, creator, opener>>

\* SharedMemConf::add_lock
AddLock ==
    \E a \in IF NothingMapped THEN LockArgs ELSE LaterLockArgs :
      \E bld \in BuildsFor(Small(a[2]) /\ Small(a[3])) :
        LET r == add_lock_impl(conf, a[1], a[2], a[3], bld)
        IN  /\ Len(conf.lock_data) < (IF NothingMapped THEN MaxLocks ELSE 1)
            /\ conf' = IF r.res = "Ok" THEN r.conf ELSE DefaultConf
            /\ last' = IF r.res = "Ok" THEN Returned("add_lock")
                       ELSE Failed("add_lock", r.res, r.err, NONE, << >>)
            /\ UNCHANGED <<os, fs, creator, opener>>

\* SharedMemConf::add_event
AddEvent ==
    \E event_type \in IF NothingMapped THEN EventTypes ELSE LaterEventTypes :
        /\ Len(conf.event_data) < MaxEvents
        /\ conf' = add_event_impl(conf, event_type)
        /\ last' = Returned("add_event")
        /\ UNCHANGED <<os, fs, creator, opener>>

\* SharedMemConf::create
Create ==
    \E bld \in BuildsFor(Small(conf.size)), map_ptr \in MapPtrs,
       fault \in CreateFaults :
        LET r == create(conf, fs, os, bld, RANDOM_NAME, map_ptr, fault)
        IN  /\ conf' = DefaultConf
            /\ last' = [r.out EXCEPT !.given = Given(conf)]
            /\ fs' = r.fs
            /\ os' = r.os
            /\ UNCHANGED <<creator, opener>>

\* SharedMemConf::open
Open ==
    \E bld \in BuildsFor(\A n \in Names : SmallMapping(os[n])),
       map_ptr \in MapPtrs, fault \in Faults,
       wild \in UNION { WildsFor(os[n]) : n \in Names } :
        /\ conf' = DefaultConf
        /\ last' = [open(conf, fs, os, bld, map_ptr, fault, wild)
                        EXCEPT !.given = Given(conf)]
        /\ UNCHANGED <<os, fs, creator, opener>>

Next ==
    \/ SetSize
    \/ SetLinkPath
    \/ SetOsPath
    \/ OverwriteLink
    \/ AddLock
    \/ AddEvent
    \/ Create
    \/ Open

Spec == Init /\ [][Next]_vars

(***************************************************************************)
(* A second environment for open: the mapping under EXPLICIT_NAME was not  *)
(* made by this history's create.  Another process made it (the image a    *)
(* create writes) and up to two of its fields were overwritten since: the  *)
(* header's sizes and counts, a descriptor header's uid, offset or length, *)
(* or the size the OS reports for the mapping.                             *)
(***************************************************************************)
ForeignConfs ==
    LET c0 == [DefaultConf EXCEPT !.size = 16]
        c1 == add_lock_impl(c0, 1, 0, 8, "release").conf
        c2 == add_lock_impl(c1, 0, 8, 8, "release").conf
    IN  { add_event_impl(c2, 0), add_event_impl(c1, 1) }

\* the mapping a create of self leaves behind (offsets from the mapping's base)
Image(self) ==
    LET meta_size == calculate_metadata_size(self)
        ser == CreateSerialize(self, 0, meta_size, "none")
    IN  [ live |-> TRUE, map_size |-> meta_size + self.size, hdr |-> ser.hdr,
          cells |-> ser.cells, by |-> Layout(DefaultConf), complete |-> FALSE ]

\* meta_size and user_size whose sum wraps to 0
HALF_USIZE == USIZE_MOD \div 2

Overwritten(m) ==
    { [m EXCEPT !.hdr.meta_size = v] :
        v \in {m.hdr.meta_size + ADDR_ALIGN, m.hdr.meta_size - ADDR_ALIGN,
               USIZE_MAX - 7} }
    \cup { [m EXCEPT !.hdr.user_size = v] :
        v \in {m.hdr.user_size + ADDR_ALIGN, m.hdr.user_size - ADDR_ALIGN} }
    \cup { [m EXCEPT !.hdr.meta_size = HALF_USIZE, !.hdr.user_size = HALF_USIZE] }
    \cup { [m EXCEPT !.hdr.user_size = USIZE_MOD - m.hdr.meta_size] }
    \cup { [m EXCEPT !.hdr.num_locks = v] :
        v \in {m.hdr.num_locks + 1} \cup
              (IF m.hdr.num_locks > 0 THEN {m.hdr.num_locks - 1} ELSE {}) }
    \cup { [m EXCEPT !.hdr.num_events = v] :
        v \in {m.hdr.num_events + 1} \cup
              (IF m.hdr.num_events > 0 THEN {m.hdr.num_events - 1} ELSE {}) }
    \cup { [m EXCEPT !.cells[at].uid = BAD_UID] : at \in DOMAIN m.cells }
    \cup { [m EXCEPT !.cells[at].offset = v] :
        at \in DOMAIN m.cells, v \in {12, USIZE_MAX - 3} }
    \cup { [m EXCEPT !.cells[at].length = v] :
        at \in DOMAIN m.cells, v \in {0, 16} }
    \cup { [m EXCEPT !.map_size = v] : v \in {16, m.map_size + ADDR_ALIGN} }

ForeignMappings ==
    LET images == { Image(c) : c \in ForeignConfs }
        once   == UNION { Overwritten(m) : m \in images }
        twice  == UNION { Overwritten(m) : m \in once }
    IN  images \cup once \cup twice

InitForeign ==
    /\ conf = DefaultConf
    /\ \E m \in ForeignMappings :
          os = [n \in Names |-> IF n = EXPLICIT_NAME THEN m ELSE NoMapping]
    /\ fs = NONE
    /\ last = NoResult
    /\ creator = NoCreator
    /\ opener = NoOpener

NextForeign ==
    \/ SetOsPath
    \/ Open

SpecForeign == InitForeign /\ [][NextForeign]_vars

(***************************************************************************)
(* A third environment: the caller builds a configuration, and at some     *)
(* moment another process publishes a mapping under EXPLICIT_NAME whose    *)
(* lock headers need not be the ranges an add_lock accepted: the image of  *)
(* a zero-length lock followed by two locks on [0, 8) and [8, 16), with    *)
(* one offset or length overwritten.                                       *)
(***************************************************************************)
DiagMappings ==
    LET c0 == [DefaultConf EXCEPT !.size = 16]
        c1 == add_lock_impl(c0, 0, 0, 0, "release").conf
        c2 == add_lock_impl(c1, 1, 0, 8, "release").conf
        c3 == add_lock_impl(c2, 0, 8, 8, "release").conf
        m  == Image(c3)
    IN  {m}
        \cup { [m EXCEPT !.cells[at].offset = v] : at \in DOMAIN m.cells, v \in {4, 12} }
        \cup { [m EXCEPT !.cells[at].length = v] : at \in DOMAIN m.cells, v \in {0, 16} }

\* the other process's mapping appears
Forge ==
    /\ NothingMapped
    /\ \E m \in DiagMappings : os' = [os EXCEPT ![EXPLICIT_NAME] = m]
    /\ UNCHANGED <<conf, fs, last, creator, opener>>

InitDiag ==
    /\ conf = DefaultConf
    /\ os = [n \in Names |-> NoMapping]
    /\ fs = NONE
    /\ last = NoResult
    /\ creator = NoCreator
    /\ opener = NoOpener

NextDiag ==
    \/ SetSize
    \/ SetOsPath
    \/ AddLock
    \/ Forge
    \/ Open

SpecDiag == InitDiag /\ [][NextDiag]_vars

(***************************************************************************)
(* A fourth environment: the creator runs create of a configuration with a *)
(* link path, one statement group at a time, while the caller (the opener) *)
(* sets the same link path and opens.  Nothing orders the two processes.   *)
(***************************************************************************)
\* the order a create that publishes the name last would have
PublishLast ==
    << "link", "map", "header", "locks", "events", "publish", "return", "done" >>

\* SharedMemConf::create, the order of its statement groups: the link file
\* is opened (208-232), the mapping created (235-243), the name written to
\* the link file (246-250), the header written (252-262), the locks
\* (264-281) and the events (283-297) written and initialised, and the
\* region returned (299-309)
CreateOrder ==
    << "link", "map", "publish", "header", "locks", "events", "return", "done" >>

After(pc) ==
    CreateOrder[(CHOOSE k \in 1 .. Len(CreateOrder) - 1 : CreateOrder[k] = pc) + 1]

RaceConfs ==
    LET c0 == [DefaultConf EXCEPT !.size = 16, !.link_path = LINK_PATH]
        c1 == add_lock_impl(c0, 0, 0, 8, "release").conf
        c2 == add_lock_impl(c0, 1, 0, 8, "release").conf
        c3 == add_lock_impl(c2, 0, 8, 8, "release").conf
    IN  { add_event_impl(c1, 0), add_event_impl(c3, 1) }

\* lines 235-238
CreatorName ==
    IF creator.self.wanted_os_path # NONE THEN creator.self.wanted_os_path
    ELSE RANDOM_NAME

\* lines 208-232
CreatorLink ==
    /\ creator.pc = "link"
    /\ LET link == CreateLink(creator.self, fs, "none")
       IN  /\ link.res = "Ok"
           /\ fs' = link.fs
           /\ creator' = [creator EXCEPT !.pc = After("link"),
                                         !.self.owner = link.owner]
    /\ UNCHANGED <<conf, os, last, opener>>

\* lines 240-243
CreatorMap ==
    /\ creator.pc = "map"
    /\ ~ os[CreatorName].live
    /\ os' = [os EXCEPT ![CreatorName] =
                 FreshMapping(calculate_metadata_size(creator.self) + creator.self.size)]
    /\ creator' = [creator EXCEPT !.pc = After("map")]
    /\ UNCHANGED <<conf, fs, last, opener>>

\* lines 246-250
CreatorPublish ==
    /\ creator.pc = "publish"
    /\ fs' = LinkWrite(fs, CreatorName)
    /\ creator' = [creator EXCEPT !.pc = After("publish")]
    /\ UNCHANGED <<conf, os, last, opener>>

\* lines 252-262
CreatorHeader ==
    /\ creator.pc = "header"
    /\ os' = [os EXCEPT ![CreatorName].hdr =
                 [ meta_size  |-> calculate_metadata_size(creator.self),
                   user_size  |-> creator.self.size,
                   num_locks  |-> Len(creator.self.lock_data),
                   num_events |-> Len(creator.self.event_data) ]]
    /\ creator' = [creator EXCEPT
                     !.pc = After("header"),
                     !.i = 1,
                     !.w = [ cur |-> creator.map_ptr + SIZE_OF_META_HEADER,
                             cells |-> << >>,
                             lock_data |-> creator.self.lock_data,
                             event_data |-> creator.self.event_data,
                             inits |-> << >>, steps |-> << >>, res |-> "Ok" ]]
    /\ UNCHANGED <<conf, fs, last, opener>>

\* lines 265-281, one iteration
CreatorLock ==
    /\ creator.pc = "locks"
    /\ LET user_ptr == creator.map_ptr + calculate_metadata_size(creator.self)
           w1 == CreateLockStep(creator.w, creator.i, creator.map_ptr, user_ptr, "none")
           more == creator.i < Len(creator.w.lock_data)
       IN  /\ os' = [os EXCEPT ![CreatorName].cells = w1.cells]
           /\ creator' = [creator EXCEPT
                            !.w = w1,
                            !.i = IF more THEN @ + 1 ELSE 1,
                            !.pc = IF more THEN @ ELSE After("locks")]
    /\ UNCHANGED <<conf, fs, last, opener>>

\* lines 284-297, one iteration
CreatorEvent ==
    /\ creator.pc = "events"
    /\ LET w1 == CreateEventStep(creator.w, creator.i, creator.map_ptr, "none")
           more == creator.i < Len(creator.w.event_data)
       IN  /\ os' = [os EXCEPT ![CreatorName].cells = w1.cells]
           /\ creator' = [creator EXCEPT
                            !.w = w1,
                            !.i = IF more THEN @ + 1 ELSE 1,
                            !.pc = IF more THEN @ ELSE After("events")]
    /\ UNCHANGED <<conf, fs, last, opener>>

\* lines 299-309
CreatorReturn ==
    /\ creator.pc = "return"
    /\ os' = [os EXCEPT
                 ![CreatorName].complete = TRUE,
                 ![CreatorName].by =
                     Layout([creator.self EXCEPT
                               !.meta_size = calculate_metadata_size(creator.self)])]
    /\ creator' = [creator EXCEPT !.pc = After("return")]
    /\ UNCHANGED <<conf, fs, last, opener>>

InitRace ==
    /\ conf = DefaultConf
    /\ os = [n \in Names |-> NoMapping]
    /\ fs = NONE
    /\ last = NoResult
    /\ \E c \in RaceConfs, map_ptr \in MapPtrs :
          creator = [NoCreator EXCEPT !.pc = CreateOrder[1], !.self = c,
                                      !.map_ptr = map_ptr]
    /\ opener = NoOpener

NextRace ==
    \/ CreatorLink
    \/ CreatorMap
    \/ CreatorPublish
    \/ CreatorHeader
    \/ CreatorLock
    \/ CreatorEvent
    \/ CreatorReturn
    \/ SetLinkPath
    \/ Open

SpecRace == InitRace /\ [][NextRace]_vars

(***************************************************************************)
(* A fifth environment: one open, of the mapping under EXPLICIT_NAME, run  *)
(* one loop iteration at a time.  The mapping is what a create left, with  *)
(* its header overwritten: counts up to the largest word, a meta_size that *)
(* ends before, at or after the descriptors, and a region that reaches     *)
(* past the mapping (the sum of meta_size and user_size wraps).  A read    *)
(* outside the mapping produces, at each read anew, a crash or some        *)
(* header.                                                                 *)
(***************************************************************************)
WalkWilds == Wilds \cup { [crash |-> FALSE, cell |-> [uid |-> 1, offset |-> 0, length |-> 0]] }

WalkFaults == {"none", "init1", "init2"}

Recounted(m) ==
    { [m EXCEPT !.hdr.num_locks = nl, !.hdr.num_events = ne] :
        nl \in {m.hdr.num_locks, m.hdr.num_locks + 1, USIZE_MAX},
        ne \in {m.hdr.num_events, m.hdr.num_events + 1, USIZE_MAX} }

Resized(m) ==
    { m,
      [m EXCEPT !.hdr.meta_size = @ - ADDR_ALIGN],
      [m EXCEPT !.hdr.meta_size = @ + ADDR_ALIGN, !.map_size = @ + 8 * ADDR_ALIGN],
      [m EXCEPT !.hdr.meta_size = @ + 8 * ADDR_ALIGN, !.map_size = @ + 8 * ADDR_ALIGN],
      [m EXCEPT !.hdr.meta_size = @ + 8 * ADDR_ALIGN,
                !.hdr.user_size = USIZE_MOD - (m.hdr.meta_size + 8 * ADDR_ALIGN)],
      [m EXCEPT !.hdr.meta_size = SIZE_OF_META_HEADER - ADDR_ALIGN] }

WalkMappings ==
    UNION { Recounted(r) : r \in UNION { Resized(Image(c)) : c \in ForeignConfs } }

\* the mapping the opener walks
WalkedMapping == os[EXPLICIT_NAME]

OpenerResult(res, w, cursor) ==
    [NoResult EXCEPT !.op = "open", !.res = res, !.err = w.err, !.conf = w.conf,
                     !.map_ptr = opener.map_ptr, !.user_ptr = opener.user_ptr,
                     !.cursor = cursor, !.name = EXPLICIT_NAME, !.seen = WalkedMapping,
                     !.inits = w.inits, !.steps = w.steps,
                     !.calls = << <<"open_mapping", EXPLICIT_NAME>> >>]

\* lines 345-369: the mapping is placed, the header read and checked
OpenerMap ==
    /\ opener.pc = "map"
    /\ \E map_ptr \in MapPtrs, bld \in Builds, fault \in WalkFaults :
          LET m    == WalkedMapping
              sum  == m.hdr.meta_size + m.hdr.user_size
              uptr == map_ptr + m.hdr.meta_size
              o1   == [opener EXCEPT
                          !.map_ptr = map_ptr, !.user_ptr = Wrap(uptr), !.bld = bld,
                          !.fault = fault,
                          !.w.cur = map_ptr + SIZE_OF_META_HEADER,
                          !.w.conf = [ResetConf(conf) EXCEPT !.size = m.hdr.user_size]]
              stop(res) ==
                  /\ opener' = [o1 EXCEPT !.pc = "done"]
                  /\ last' = [Failed("open", res, << >>, EXPLICIT_NAME,
                                     << <<"open_mapping", EXPLICIT_NAME>> >>)
                                 EXCEPT !.seen = m, !.map_ptr = map_ptr]
          IN  IF SIZE_OF_META_HEADER > m.map_size THEN stop("InvalidHeader")
              ELSE IF Overflows(sum) /\ bld = "debug" THEN stop("Panic")
              ELSE IF m.map_size < Wrap(sum) THEN stop("InvalidHeader")
              ELSE IF Overflows(uptr) /\ bld = "debug" THEN stop("Panic")
              ELSE /\ opener' = [o1 EXCEPT !.pc = "locks"]
                   /\ UNCHANGED last
    /\ UNCHANGED <<conf, os, fs, creator>>

\* lines 372-412: the loop's test, and one iteration
OpenerLock ==
    /\ opener.pc = "locks"
    /\ IF opener.i >= WalkedMapping.hdr.num_locks
       THEN /\ opener' = [opener EXCEPT !.pc = "events", !.i = 0]
            /\ UNCHANGED last
       ELSE \E wild \in WalkWilds :
              LET w1 == OpenLockStep(opener.w, WalkedMapping, opener.map_ptr,
                                     opener.user_ptr, opener.bld, opener.fault, wild)
              IN  /\ opener' = [opener EXCEPT
                                   !.w = w1, !.i = @ + 1, !.iters = @ + 1,
                                   !.pc = IF w1.res = "Ok" THEN "locks" ELSE "done"]
                  /\ last' = IF w1.res = "Ok" THEN last
                             ELSE OpenerResult(w1.res, w1, w1.cur)
    /\ UNCHANGED <<conf, os, fs, creator>>

\* lines 415-452: the loop's test, and one iteration
OpenerEvent ==
    /\ opener.pc = "events"
    /\ IF opener.i >= WalkedMapping.hdr.num_events
       THEN /\ opener' = [opener EXCEPT !.pc = "final", !.i = 0]
            /\ UNCHANGED last
       ELSE \E wild \in WalkWilds :
              LET w1 == OpenEventStep(opener.w, WalkedMapping, opener.map_ptr,
                                      opener.user_ptr, opener.fault, wild)
              IN  /\ opener' = [opener EXCEPT
                                   !.w = w1, !.i = @ + 1, !.iters = @ + 1,
                                   !.pc = IF w1.res = "Ok" THEN "events" ELSE "done"]
                  /\ last' = IF w1.res = "Ok" THEN last
                             ELSE OpenerResult(w1.res, w1, w1.cur)
    /\ UNCHANGED <<conf, os, fs, creator>>

\* lines 454-470: the final alignment and check
OpenerFinal ==
    /\ opener.pc = "final"
    /\ LET cur_ptr == align_value(opener.w.cur, ADDR_ALIGN)
           w3 == [opener.w EXCEPT !.conf.meta_size = cur_ptr - opener.map_ptr]
       IN  /\ opener' = [opener EXCEPT !.pc = "done", !.w = w3]
           /\ last' = IF FinalCheckFails(cur_ptr, opener.user_ptr, w3.conf.meta_size,
                                         WalkedMapping.hdr.meta_size)
                      THEN OpenerResult("InvalidHeader", opener.w, cur_ptr)
                      ELSE OpenerResult("Ok", w3, cur_ptr)
    /\ UNCHANGED <<conf, os, fs, creator>>

InitWalk ==
    /\ conf = [DefaultConf EXCEPT !.wanted_os_path = EXPLICIT_NAME]
    /\ \E m \in WalkMappings :
          os = [n \in Names |-> IF n = EXPLICIT_NAME THEN m ELSE NoMapping]
    /\ fs = NONE
    /\ last = NoResult
    /\ creator = NoCreator
    /\ opener = [NoOpener EXCEPT !.pc = "map"]

NextWalk ==
    \/ OpenerMap
    \/ OpenerLock
    \/ OpenerEvent
    \/ OpenerFinal

\* the opener is a thread that runs: every call it makes returns
SpecWalk == InitWalk /\ [][NextWalk]_vars /\ WF_vars(NextWalk)

(***************************************************************************)
(* The properties.                                                         *)
(***************************************************************************)
\* the most recent call returned an attached region
Attached(op) == last.op = op /\ last.res = "Ok"

Fits(lock, user_size) ==
    \/ lock.length = 0 /\ lock.offset = 0
    \/ lock.offset + lock.length <= user_size

\* the byte ranges [offset, offset + length) of two locks share no byte
Apart(l1, l2) ==
    \/ l1.offset + l1.length <= l2.offset
    \/ l2.offset + l2.length <= l1.offset

Exclusive(lock_data) ==
    \A i, j \in 1 .. Len(lock_data) :
        (i # j /\ lock_data[i].length > 0 /\ lock_data[j].length > 0)
            => Apart(lock_data[i], lock_data[j])

ValidLayout(l) ==
    /\ l.user_size > 0
    /\ \A i \in DOMAIN l.locks :
          Fits([offset |-> l.locks[i][2], length |-> l.locks[i][3]], l.user_size)
    /\ Exclusive([i \in DOMAIN l.locks |->
                    [offset |-> l.locks[i][2], length |-> l.locks[i][3]]])

C2_FitInvariant ==
    /\ \A i \in 1 .. Len(conf.lock_data) : Fits(conf.lock_data[i], conf.size)
    /\ last.res = "Ok" =>
          \A i \in 1 .. Len(last.conf.lock_data) :
              Fits(last.conf.lock_data[i], last.conf.size)

\* C3: the non-zero-length locks of the builder and of an attached region's
\* configuration are pairwise disjoint, and add_lock rejects every range
\* that intersects a non-zero-length lock the builder holds.
C3_Exclusivity ==
    /\ Exclusive(conf.lock_data)
    /\ last.res = "Ok" => Exclusive(last.conf.lock_data)
    /\ \A a \in LockArgs, bld \in Builds :
          (/\ a[3] > 0
           /\ \E i \in 1 .. Len(conf.lock_data) :
                 /\ conf.lock_data[i].length > 0
                 /\ ~ Apart(conf.lock_data[i], [offset |-> a[2], length |-> a[3]]))
          => add_lock_impl(conf, a[1], a[2], a[3], bld).res # "Ok"

C3_Witness ==
    /\ last.op = "add_lock" /\ last.res = "RangeOverlapsExisting"

\* C4: get_metadata_size() is what the layout calculator gives for the
\* current lock and event sequences, in the builder and in an attached
\* region's configuration.
C4_MetaSizeInvariant ==
    /\ conf.meta_size = calculate_metadata_size(conf)
    /\ last.res = "Ok" => last.conf.meta_size = calculate_metadata_size(last.conf)

\* C5: is_owner() is true on the configuration create returns and false on
\* the configuration open returns.
C5_OwnerFlag ==
    /\ Attached("create") => last.conf.owner
    /\ Attached("open") => ~ last.conf.owner

\* C6: the computed meta_size is a multiple of ADDR_ALIGN, and in an attached
\* region every lock body, every event body and the user region start at a
\* multiple of ADDR_ALIGN from the start of the mapping.
AlignedFrom(map_ptr, ptr) == (ptr - map_ptr) % ADDR_ALIGN = 0

C6_Alignment ==
    /\ calculate_metadata_size(conf) % ADDR_ALIGN = 0
    /\ (Attached("create") \/ Attached("open")) =>
          /\ last.conf.meta_size % ADDR_ALIGN = 0
          /\ AlignedFrom(last.map_ptr, last.user_ptr)
          /\ \A i \in 1 .. Len(last.conf.lock_data) :
                AlignedFrom(last.map_ptr, last.conf.lock_data[i].lock_ptr)
          /\ \A i \in 1 .. Len(last.conf.event_data) :
                AlignedFrom(last.map_ptr, last.conf.event_data[i].ptr)

C6_Witness ==
    /\ Attached("open")
    /\ Len(last.conf.lock_data) = 2
    /\ LockSizeOf(last.conf.lock_data[1].uid) % ADDR_ALIGN # 0
    /\ Len(last.conf.event_data) = 1
    /\ last.conf.event_data[1].ptr # NULL

(***************************************************************************)
(* The descriptor headers of mapping m as its bytes give them: num_locks   *)
(* lock headers, then num_events event headers, each followed by the body  *)
(* of its kind.  heads are the headers found, up to the first one whose    *)
(* uid is no kind or that does not lie within the mapping; done tells that *)
(* all of them were found, and size is then where the metadata ends.       *)
(***************************************************************************)
RECURSIVE HeaderWalk(_, _, _, _)
HeaderWalk(m, k, at, heads) ==
    LET lock   == k < m.hdr.num_locks
        size   == IF lock THEN SIZE_OF_LOCK_HEADER ELSE SIZE_OF_EVENT_HEADER
        cell   == ReadCell(m, at)
        known  == IF lock THEN cell.uid \in LockTypes ELSE cell.uid \in EventTypes
        body   == IF lock THEN LockSizeOf(cell.uid) ELSE EventSizeOf(cell.uid)
        heads1 == Append(heads, [lock |-> lock, known |-> known, uid |-> cell.uid,
                                 offset |-> cell.offset, length |-> cell.length])
    IN  IF k >= m.hdr.num_locks + m.hdr.num_events
        THEN [done |-> TRUE, heads |-> heads, size |-> align_value(at, ADDR_ALIGN)]
        ELSE IF at + size > m.map_size
        THEN [done |-> FALSE, heads |-> heads, size |-> at]
        ELSE IF ~ known
        THEN [done |-> FALSE, heads |-> heads1, size |-> at]
        ELSE HeaderWalk(m, k + 1, align_value(at + size, ADDR_ALIGN) + body, heads1)

Headers(m) == HeaderWalk(m, 0, SIZE_OF_META_HEADER, << >>)

\* some lock or event header of m carries a uid that is no kind
HasUnknownUid(m) ==
    /\ m.map_size >= SIZE_OF_META_HEADER
    /\ Headers(m).heads # << >>
    /\ ~ Headers(m).heads[Len(Headers(m).heads)].known

\* which of the descriptors, counted from 1, carries it
UnknownAt(m) == Len(Headers(m).heads)

RangeErrors == {"RangeDoesNotFit", "RangeOverlapsExisting"}

\* open returned on a mapping it got from the OS
Opened == last.op = "open" /\ last.seen.live

\* C7 as stated: open of a mapping smaller than the fixed header returns
\* InvalidHeader, and so does open of a mapping in which a lock or event
\* header carries an unknown uid.
C7_Rejection ==
    Opened =>
        /\ last.seen.map_size < SIZE_OF_META_HEADER => last.res = "InvalidHeader"
        /\ HasUnknownUid(last.seen) => last.res = "InvalidHeader"

\* C7, amended: open of a mapping smaller than the fixed header returns
\* InvalidHeader with no primitive initialised.  Open of a mapping in which a
\* lock or event header carries an unknown uid never succeeds, and it returns
\* InvalidHeader unless an earlier descriptor ended the parse: add_lock_impl
\* rejected an earlier lock header's range, an earlier primitive's init
\* returned an error, or the process panicked on an overflowing sum.
C7_RejectionUnlessEarlierError ==
    Opened =>
        /\ last.seen.map_size < SIZE_OF_META_HEADER
              => last.res = "InvalidHeader" /\ last.inits = << >>
        /\ HasUnknownUid(last.seen) =>
              \/ last.res = "InvalidHeader"
              \/ last.res = "Panic"
              \/ last.res \in RangeErrors
                    /\ Len(last.inits) + 1 < UnknownAt(last.seen)
              \/ last.res = "InitFailed"
                    /\ Len(last.inits) < UnknownAt(last.seen)

\* the parse reached the second descriptor, whose uid is unknown, and rejected it
C7_Witness ==
    /\ Opened /\ HasUnknownUid(last.seen)
    /\ last.res = "InvalidHeader"
    /\ UnknownAt(last.seen) >= 2
    /\ Len(last.inits) + 1 = UnknownAt(last.seen)
    /\ last.cursor <= last.user_ptr

\* the lock headers of the walk have ranges add_lock accepts
LockHeads(m) == SelectSeq(Headers(m).heads, LAMBDA h : h.lock)

Accepted(lock, user_size) ==
    IF lock.length = 0 THEN lock.offset = 0
    ELSE lock.offset + lock.length <= user_size

ValidRanges(m) ==
    /\ \A i \in DOMAIN LockHeads(m) : Accepted(LockHeads(m)[i], m.hdr.user_size)
    /\ Exclusive(LockHeads(m))

\* the header's meta_size field is not where the walk of the headers ends
MetaSizeMismatch(m) ==
    /\ m.map_size >= SIZE_OF_META_HEADER
    /\ Headers(m).done
    /\ Headers(m).size # m.hdr.meta_size

\* open succeeds only with the cursor on user_ptr, header.meta_size bytes from
\* the base, after exactly num_locks lock and num_events event descriptors
SuccessMeansExactWalk ==
    (Opened /\ last.res = "Ok") =>
        /\ last.cursor = last.user_ptr
        /\ last.cursor - last.map_ptr = last.seen.hdr.meta_size
        /\ Len(last.conf.lock_data) = last.seen.hdr.num_locks
        /\ Len(last.conf.event_data) = last.seen.hdr.num_events

\* C8 as stated: open succeeds only if the cursor, after exactly num_locks
\* lock and num_events event descriptors and the final alignment, equals
\* user_ptr and lies header.meta_size from the base; a meta_size field that
\* differs from the walk of the headers yields InvalidHeader.
C8_FinalCursorCheck ==
    /\ SuccessMeansExactWalk
    /\ (Opened /\ MetaSizeMismatch(last.seen)) => last.res = "InvalidHeader"

\* C8, amended: open succeeds only if the cursor, after exactly num_locks
\* lock and num_events event descriptors and the final alignment, equals
\* user_ptr and lies header.meta_size from the base; with a meta_size field
\* that differs from the walk of the headers open never succeeds, and it
\* returns InvalidHeader unless a descriptor ended the parse before: a lock
\* header's range was rejected by add_lock_impl, a primitive's init returned
\* an error, or the process panicked on an overflowing sum.
C8_FinalCursorCheckUnlessEarlierError ==
    /\ SuccessMeansExactWalk
    /\ (Opened /\ MetaSizeMismatch(last.seen)) =>
          \/ last.res = "InvalidHeader"
          \/ last.res = "Panic"
          \/ last.res \in RangeErrors /\ ~ ValidRanges(last.seen)
          \/ last.res = "InitFailed" /\ last.inits # << >>

\* every descriptor was parsed and initialised, and the final comparison
\* rejected the header
C8_Witness ==
    /\ Opened /\ MetaSizeMismatch(last.seen)
    /\ last.res = "InvalidHeader"
    /\ last.seen.hdr.num_locks + last.seen.hdr.num_events >= 2
    /\ Len(last.inits) = last.seen.hdr.num_locks + last.seen.hdr.num_events
    /\ last.cursor # last.user_ptr

\* C9: open takes from the builder the link path and the OS name only: from
\* every state, under every input of the environment, open of the builder the
\* caller holds and open of a new builder with the same link path and OS name
\* return the same outcome and the same lock sequence, event sequence,
\* user_size and meta_size.
SamePaths(self) ==
    [DefaultConf EXCEPT !.link_path = self.link_path,
                        !.wanted_os_path = self.wanted_os_path]

SameOutcome(a, b) ==
    /\ a.res = b.res
    /\ a.err = b.err
    /\ Layout(a.conf) = Layout(b.conf)
    /\ a.user_ptr = b.user_ptr
    /\ a.inits = b.inits

C10_ExclusiveLink ==
    [][ (last'.op = "create" /\ conf.size # 0 /\ conf.link_path # NONE /\ fs # NONE)
        => IF ~ conf.overwrite_existing_link
           THEN /\ last'.res = "LinkExists"
                /\ fs' = fs
                /\ os' = os
                /\ last'.calls = << >>
           ELSE \/ last'.res = "LinkCreateFailed" /\ fs' = fs
                \/ /\ last'.res \notin {"LinkExists", "LinkCreateFailed"}
                   /\ Len(last'.calls) = 1
                   /\ last'.calls[1][1] = "create_mapping"
                   /\ fs' = IF last'.res \in {"Ok", "InitFailed"}
                            THEN last'.name ELSE "" ]_vars

C10_Witness ==
    /\ last.op = "create" /\ last.res = "LinkExists"
    /\ fs = STALE_NAME
    /\ NothingMapped

\* C11: after a create with a link path returned Ok, the link file holds
\* exactly the OS name create passed to create_mapping, and an open of a
\* builder that has only that link path passes the same name to open_mapping
\* and gets the mapping create made.
C11_LinkIndirection ==
    (Attached("create") /\ last.conf.link_path # NONE) =>
        /\ last.calls[1][1] = "create_mapping"
        /\ fs = last.calls[1][2]
        /\ \A bld \in Builds, map_ptr \in MapPtrs, wild \in Wilds,
              fault \in Faults \ {"link_open", "link_io"} :
              LET r == open([DefaultConf EXCEPT !.link_path = last.conf.link_path],
                            fs, os, bld, map_ptr, fault, wild)
              IN  /\ r.calls = << <<"open_mapping", last.calls[1][2]>> >>
                  /\ fault # "mapping" => r.seen = last.seen /\ r.seen.live

C11_Witness ==
    /\ Attached("create")
    /\ last.conf.link_path # NONE
    /\ last.conf.overwrite_existing_link
    /\ last.conf.wanted_os_path = EXPLICIT_NAME
    /\ fs = EXPLICIT_NAME


\* C12: a create of a builder whose size is 0 returns MapSizeZero and leaves
\* the link file and the OS mappings as they were, with no call of
\* create_mapping and no init, whatever paths, flags, locks and events the
\* builder holds.
C12_MapSizeZeroFirst ==
    [][ (last'.op = "create" /\ conf.size = 0) =>
            /\ last'.res = "MapSizeZero"
            /\ fs' = fs
            /\ os' = os
            /\ last'.calls = << >>
            /\ last'.inits = << >> ]_vars

C12_Witness ==
    /\ last.op = "create" /\ last.res = "MapSizeZero"
    /\ last.given >= 2
    /\ fs = STALE_NAME
    /\ NothingMapped

\* C13: an open of a builder with an OS name passes that name to
\* open_mapping and returns no error of the link file, whether or not a link
\* path is set and whatever the link file holds; an open of a builder
\* without an OS name whose link path is unset or names no file returns
\* LinkDoesNotExist without a call of open_mapping.
C13_NameResolution ==
    [][ last'.op = "open" =>
            /\ conf.wanted_os_path # NONE =>
                  /\ last'.calls = << <<"open_mapping", conf.wanted_os_path>> >>
                  /\ last'.res \notin {"LinkDoesNotExist", "LinkOpenFailed",
                                       "LinkReadFailed"}
            /\ (conf.wanted_os_path = NONE /\ (conf.link_path = NONE \/ fs = NONE)) =>
                  /\ last'.res = "LinkDoesNotExist"
                  /\ last'.calls = << >> ]_vars

\* the open went by the OS name while the link file named something else
C13_Witness ==
    /\ Attached("open")
    /\ last.conf.link_path # NONE
    /\ last.conf.wanted_os_path # NONE
    /\ fs \notin {NONE, last.name}

\* the diagnostic names the position, counted from 0 over all of locks, of
\* a lock of non-zero length that shares a byte with [offset, offset + length)
DiagnosticNames(err, offset, length, locks) ==
    /\ err[1] = offset
    /\ err[2] = length
    /\ err[3] + 1 \in DOMAIN locks
    /\ locks[err[3] + 1].length > 0
    /\ ~ Apart(locks[err[3] + 1], [offset |-> offset, length |-> length])

\* C14: when add_lock_impl rejects a range for overlap, the error is
\* RangeOverlapsExisting(offset, length, k), k the position in the lock
\* sequence (zero-length locks counted) of an accepted lock of non-zero
\* length that intersects the range: for every add_lock on every builder,
\* and for the lock headers open adds again, where the sequence is the lock
\* headers open accepted before, whatever locks the builder held.
C14_OverlapDiagnostic ==
    /\ \A a \in LockArgs, bld \in Builds :
          LET r == add_lock_impl(conf, a[1], a[2], a[3], bld)
          IN  r.res = "RangeOverlapsExisting" =>
                  DiagnosticNames(r.err, a[2], a[3], conf.lock_data)
    /\ (Opened /\ last.res = "RangeOverlapsExisting") =>
          LET n == Len(last.inits)
              heads == LockHeads(last.seen)
          IN  /\ n + 1 \in DOMAIN heads
              /\ DiagnosticNames(last.err, heads[n + 1].offset, heads[n + 1].length,
                                 SubSeq(heads, 1, n))

\* open reported the second lock header, after a zero-length one, to a
\* builder that held a lock of its own
C14_Witness ==
    /\ Opened /\ last.res = "RangeOverlapsExisting"
    /\ last.err[3] = 1
    /\ last.given >= 1

\* C15: valid_lock_range accepts a zero-length range iff its offset is 0 and
\* a range of non-zero length iff the true sum offset + length is at most
\* map_size, also where offset + (length - 1) overflows the machine word;
\* and an add_lock of a range that does not fit returns
\* RangeDoesNotFit(length, user_size).
C15_RangeValidator ==
    \A a \in LockArgs :
        LET fits == Accepted([offset |-> a[2], length |-> a[3]], conf.size)
        IN  /\ valid_lock_range(conf.size, a[2], a[3]) <=> fits
            /\ ~ fits =>
                  \A bld \in Builds :
                      LET r == add_lock_impl(conf, a[1], a[2], a[3], bld)
                      IN  r.res = "RangeDoesNotFit" /\ r.err = <<a[3], conf.size>>

\* the creator has begun to write the header and has not returned
Serialising == creator.pc \in {"header", "locks", "events", "return"}

\* C16: a creator with a link path and an opener by the same link path,
\* not synchronised: all the while the creator writes the header and
\* initialises its primitives, the link file already holds the name of the
\* live mapping, and an open by the link path gets that mapping as it is
\* then; so the opener can open before the header is written or before
\* every init(is_owner = true) has been called.
C16_PublishBeforeInit ==
    Serialising =>
        /\ fs = CreatorName
        /\ os[CreatorName].live
        /\ \A bld \in Builds, map_ptr \in MapPtrs, wild \in Wilds :
              LET r == open([DefaultConf EXCEPT !.link_path = creator.self.link_path],
                            fs, os, bld, map_ptr, "none", wild)
              IN  r.seen = os[CreatorName]

\* the opener's open returned Ok on the mapping as it still is, while the
\* creator has the header written but has not called every init
C16_Witness ==
    /\ Attached("open")
    /\ last.seen = os[CreatorName]
    /\ creator.pc \in {"locks", "events"}
    /\ Len(creator.w.inits) < Given(creator.self)

\* C17: when create returns Ok, the serialisation cursor after the final
\* alignment is map_ptr plus the size calculate_metadata_size gives for the
\* configuration's locks and events: the returned user_ptr is map_ptr plus
\* the header's meta_size field, and that field is the number of bytes the
\* serialisation walk consumed.
C17_SerializerAgrees ==
    Attached("create") =>
        /\ last.cursor = last.map_ptr + calculate_metadata_size(last.conf)
        /\ last.user_ptr = last.map_ptr + last.seen.hdr.meta_size
        /\ last.seen.hdr.meta_size = last.cursor - last.map_ptr

C17_Witness ==
    /\ Attached("create")
    /\ Len(last.conf.lock_data) = 2
    /\ LockSizeOf(last.conf.lock_data[1].uid) % ADDR_ALIGN # 0
    /\ Len(last.conf.event_data) = 1
    /\ EventSizeOf(last.conf.event_data[1].uid) > 0


(***************************************************************************)
(* C18.  Cursor-overrun safety in open: whatever the header holds, open    *)
(* decodes the uid of a descriptor only if the descriptor's header lies    *)
(* within the metadata region [map_ptr, user_ptr], and calls init for it,  *)
(* with is_owner false, only if its body [ptr, ptr + size) lies within     *)
(* that region too; a cursor beyond user_ptr makes open return             *)
(* InvalidHeader, with no init call for the descriptor it stopped at.      *)
(* steps holds, for each header decoded, body placed and init called, the  *)
(* bytes it is about: <<what, kind, index, address, size>>.                *)
(***************************************************************************)
Within(step, lo, hi) == lo <= step[4] /\ step[4] + step[5] <= hi

InitsOf(steps) == {k \in 1..Len(steps) : steps[k][1] = "init"}

C18_CursorOverrunSafety ==
    Opened =>
        /\ \A k \in 1..Len(last.steps) :
              LET step == last.steps[k]
              IN  /\ step[1] = "header" => Within(step, last.map_ptr, last.user_ptr)
                  /\ step[1] = "init" =>
                        /\ step[5] > 0 => Within(step, last.map_ptr, last.user_ptr)
                        /\ \E j \in 1..(k - 1) :
                              /\ last.steps[j][1] = "header"
                              /\ last.steps[j][2] = step[2]
                              /\ last.steps[j][3] = step[3]
        /\ Cardinality(InitsOf(last.steps)) = Len(last.inits)
        /\ \A k \in 1..Len(last.inits) : ~ last.inits[k].owner
        /\ last.cursor > last.user_ptr => last.res = "InvalidHeader"

\* open stopped at a body that runs past user_ptr, after an init call
C18_Witness ==
    /\ Opened
    /\ last.res = "InvalidHeader"
    /\ last.cursor > last.user_ptr
    /\ InitsOf(last.steps) # {}
    /\ last.steps[Len(last.steps)][1] = "body"


(***************************************************************************)
(* C19.  Size check in open: a mapping smaller than the sum of the         *)
(* header's meta_size and user_size, taken as numbers, makes open return   *)
(* InvalidHeader, so that a sum that wraps around does not pass; on        *)
(* success user_ptr = map_ptr + meta_size, and user_ptr + user_size lies   *)
(* within the mapping.                                                     *)
(***************************************************************************)
C19_SizeCheck ==
    Opened =>
        LET hdr == last.seen.hdr
        IN  /\ last.seen.map_size < hdr.meta_size + hdr.user_size =>
                  last.res = "InvalidHeader"
            /\ last.res = "Ok" =>
                  /\ last.user_ptr = last.map_ptr + hdr.meta_size
                  /\ last.user_ptr + hdr.user_size <= last.map_ptr + last.seen.map_size

\* the same, for the headers whose sum does not wrap around
C19_SizeCheckWithoutWrap ==
    (Opened /\ ~ Overflows(last.seen.hdr.meta_size + last.seen.hdr.user_size)) =>
        C19_SizeCheck

\* open returned Ok on a header whose sum wraps around
C19_WrappedSumAccepted ==
    /\ Opened
    /\ last.res = "Ok"
    /\ Overflows(last.seen.hdr.meta_size + last.seen.hdr.user_size)
    /\ last.user_ptr + last.seen.hdr.user_size > last.map_ptr + last.seen.map_size


(***************************************************************************)
(* C20.  Declared order: a create and an open go through the descriptors   *)
(* in sequence order, all locks before all events; for each descriptor the *)
(* header is written (create) or read (open), then the body address is     *)
(* assigned, then init is called, and only then does the next descriptor   *)
(* start; create calls init with is_owner true, open with false, once per  *)
(* descriptor on success.  Rank numbers the steps of that order.           *)
(***************************************************************************)
Phase(what) == CASE what = "header" -> 1 [] what = "body" -> 2 [] what = "init" -> 3

LocksIn(steps) ==
    Cardinality({k \in 1..Len(steps) : steps[k][1] = "header" /\ steps[k][2] = "lock"})

Rank(steps, k) ==
    LET seqno == IF steps[k][2] = "lock" THEN steps[k][3]
                 ELSE LocksIn(steps) + steps[k][3]
    IN  3 * (seqno - 1) + Phase(steps[k][1])

Walked == last.op \in {"create", "open"}

Declared ==
    IF last.op = "create" THEN Len(last.conf.lock_data) + Len(last.conf.event_data)
    ELSE last.seen.hdr.num_locks + last.seen.hdr.num_events

\* the init calls are those of the steps, with the operation's is_owner
InitsAsStepped ==
    /\ Len(last.inits) = Cardinality(InitsOf(last.steps))
    /\ \A j \in 1..Len(last.inits) :
          /\ last.inits[j].owner = (last.op = "create")
          /\ \E k \in InitsOf(last.steps) :
                /\ Cardinality({i \in InitsOf(last.steps) : i <= k}) = j
                /\ last.steps[k][2] = last.inits[j].kind
                /\ last.steps[k][3] = last.inits[j].index
                /\ last.steps[k][4] = last.inits[j].ptr
    /\ last.res = "Ok" => Len(last.inits) = Declared

\* the statement as made: every step is the next one of the declared order
C20_DeclaredOrder ==
    Walked =>
        /\ \A k \in 1..Len(last.steps) : Rank(last.steps, k) = k
        /\ InitsAsStepped

\* an init that open calls on an event without a body, its address unassigned
EarlyInit(steps, k) ==
    /\ last.op = "open"
    /\ steps[k] = <<"init", "event", steps[k][3], NULL, 0>>

\* the statement that holds: open assigns no body address to an event whose
\* body is empty, and calls its init right after reading its header
C20_DeclaredOrderButEmptyBodies ==
    Walked =>
        /\ \A k \in 1..Len(last.steps) :
              LET before == IF k = 1 THEN 0 ELSE Rank(last.steps, k - 1)
              IN  IF EarlyInit(last.steps, k)
                  THEN /\ Rank(last.steps, k) = before + 2
                       /\ last.steps[k - 1][1] = "header"
                  ELSE /\ Rank(last.steps, k) = before + 1
                       /\ (last.op = "open" /\ last.steps[k][1] = "body")
                              => last.steps[k][5] > 0 \/ last.steps[k][2] = "lock"
        /\ InitsAsStepped

\* an open that returned Ok after an early init and an init with a body
C20_Witness ==
    /\ last.op = "open"
    /\ last.res = "Ok"
    /\ \E k \in InitsOf(last.steps) : EarlyInit(last.steps, k)
    /\ \E k \in InitsOf(last.steps) : last.steps[k][5] > 0
    /\ Len(last.inits) >= 3


(***************************************************************************)
(* C21.  open terminates on every mapping: whatever the header holds,      *)
(* counts far beyond what the metadata region could hold included, every   *)
(* iteration over a descriptor moves the cursor forward (an event with an  *)
(* empty body too), by ADDR_ALIGN bytes per iteration at least over the    *)
(* walk, an iteration that leaves the cursor beyond user_ptr               *)
(* ends the walk with InvalidHeader, so that the walk makes no more        *)
(* iterations than the region has room for, and open returns.              *)
(***************************************************************************)
Walking == opener.pc \in {"locks", "events"}

\* the cursor before the first descriptor
WalkStart == opener.map_ptr + SIZE_OF_META_HEADER

\* the iterations a region of this size leaves room for
Room ==
    IF opener.user_ptr < WalkStart THEN 1
    ELSE (opener.user_ptr - WalkStart) \div ADDR_ALIGN + 1

CursorAdvances ==
    opener'.iters # opener.iters =>
        /\ opener'.iters = opener.iters + 1
        /\ opener'.w.cur > opener.w.cur

WalkWithinRegion ==
    /\ (Walking /\ opener.iters > 0) => opener.w.cur <= opener.user_ptr
    /\ opener.pc # "map" =>
            /\ opener.w.cur >= WalkStart + ADDR_ALIGN * opener.iters
            /\ opener.iters <= Room
    /\ (opener.pc = "done" /\ last.cursor > last.user_ptr) =>
            last.res = "InvalidHeader"

C21_OpenTerminates ==
    /\ [][CursorAdvances]_vars
    /\ []WalkWithinRegion
    /\ <>(opener.pc = "done")

\* open has returned InvalidHeader on a header that promises a largest word
\* of events, after events with an empty body, the cursor past user_ptr
C21_Witness ==
    /\ opener.pc = "done"
    /\ last.res = "InvalidHeader"
    /\ last.cursor > last.user_ptr
    /\ last.seen.hdr.num_events = USIZE_MAX
    /\ opener.iters >= 3
    /\ \E k \in InitsOf(last.steps) : EarlyInit(last.steps, k)

====
